---------------------------- MODULE Spec2Model ----------------------------
(***************************************************************************)
(* A model of open_spiel/python/algorithms/alpha_zero.py: the AlphaZero    *)
(* training controller (construction, self_play, update), one self-play    *)
(* episode (_self_play_single, _select_action), the PUCT scorer            *)
(* alpha_zero_ucb_score and the loss report of the Keras evaluator.        *)
(*                                                                         *)
(* Numbers.  Probabilities of a target policy are exact rationals <<n, d>>.*)
(* The floats of the scorer and of the losses are fixed-point integers in  *)
(* units of 1/Scale.                                                       *)
(***************************************************************************)
EXTENDS Integers, Sequences, FiniteSets, TLC

VARIABLES
  pc,               \* position of the running program
  game,             \* the game object handed to the constructor
  self,             \* the fields of the AlphaZero object
  error,            \* the exception raised by the last call
  gamesLeft,        \* iterations left of the loop of self_play
  state,            \* _self_play_single: the game state, as its history
  observations,     \* _self_play_single: the recorded observations
  policy_target,    \* _self_play_single: the recorded target policies
  root_node,        \* _self_play_single: the children of the search root
  terminal_rewards, \* _self_play_single: the rewards of the terminal state
  i,                \* _self_play_single: index of the loop that adds
  data,             \* update: the sampled batch
  ret,              \* update: the LossValues returned to the caller
  evaluator,        \* the evaluator: updates done, losses of the last one
  calls,            \* method calls the caller has made
  phases,           \* completed calls of self_play
  fin,              \* arguments of a function applied on its own
  fout              \* its result

vars == <<pc, game, self, error, gamesLeft, state, observations,
          policy_target, root_node, terminal_rewards, i, data, ret,
          evaluator, calls, phases, fin, fout>>

-----------------------------------------------------------------------------
(* Bounds of the model. *)

\* Arguments the caller constructs the controller with.
ReplayBufferCapacity == 2
ActionSelectionTransition == 1
NumSelfPlayGames == 2
NumTrainingRounds == 1
BatchSize == 2
\* Method calls the caller makes on one controller.
MaxCalls == 3
\* The toy game: its action ids are 0 .. NumActions-1, it ends after
\* MaxMoves moves at the latest.
NumActions == 2
MaxMoves == 3
\* Largest explore_count of a child when a function is applied on its own.
MaxCount == 2
\* Largest loss component the evaluator reports, in units of 1/Scale.
MaxLoss == 1
\* Fixed-point unit and the terms of the logarithm's series.
Scale == 1000
LnTerms == 6

Actions == 0 .. (NumActions - 1)
Players == {0, 1}

-----------------------------------------------------------------------------
(* Helpers. *)

\* The sum of the first n elements of s, and of all of s.
RECURSIVE SumTo(_, _)
SumTo(s, n) == IF n = 0 THEN 0 ELSE s[n] + SumTo(s, n - 1)

SeqSum(s) == SumTo(s, Len(s))

Max(S) == CHOOSE x \in S : \A y \in S : y <= x

\* Rationals <<n, d>> with d > 0.
RatEq(p, q) == p[1] * q[2] = q[1] * p[2]

-----------------------------------------------------------------------------
(* The game abstraction (pyspiel), as far as the controller uses it.  A    *)
(* state is its history of actions.  The toy game: taking action 0 ends    *)
(* the game and wins it for the player who took it; after MaxMoves moves   *)
(* the game is a draw.  Action 0 is not legal at odd depth.  Each player   *)
(* moves twice in a row, so the mover of step i is not always i mod 2.     *)

new_initial_state == <<>>

is_terminal(h) == Len(h) >= MaxMoves \/ (Len(h) > 0 /\ h[Len(h)] = 0)

legal_actions(h) == IF Len(h) % 2 = 0 THEN Actions ELSE Actions \ {0}

current_player(h) == (Len(h) \div 2) % 2

observation_tensor(h) == h

\* rewards as a tuple: rewards(h)[p + 1] is the reward of player p.
rewards(h) ==
  IF Len(h) > 0 /\ h[Len(h)] = 0
    THEN LET w == current_player(SubSeq(h, 1, Len(h) - 1))
         IN  [p \in 1..2 |-> IF p = w + 1 THEN 1 ELSE -1]
    ELSE <<0, 0>>

ChanceModes == {"DETERMINISTIC", "EXPLICIT_STOCHASTIC", "SAMPLED_STOCHASTIC"}
Informations == {"ONE_SHOT", "PERFECT_INFORMATION", "IMPERFECT_INFORMATION"}
Dynamicses == {"SIMULTANEOUS", "SEQUENTIAL"}
Utilities == {"ZERO_SUM", "CONSTANT_SUM", "GENERAL_SUM", "IDENTICAL"}

\* A game object: what num_players() and get_type() report, and whether the
\* object itself has the attributes chance_mode, information, dynamics and
\* utility that the constructor reads when it formats an error message.
Games ==
  [num_players : 1..3, chance_mode : ChanceModes, information : Informations,
   dynamics : Dynamicses, utility : Utilities, type_attrs : BOOLEAN]


-----------------------------------------------------------------------------
(* dqn.ReplayBuffer, a bounded store: data is ordered oldest first. *)

ReplayBuffer(capacity) == [capacity |-> capacity, data |-> <<>>]

\* add: on a full buffer the oldest element is evicted first.
buffer_add(b, x) ==
  IF Len(b.data) >= b.capacity
    THEN [b EXCEPT !.data = Append(Tail(@), x)]
    ELSE [b EXCEPT !.data = Append(@, x)]

\* sample(n, replace=True) of an empty buffer fails.
buffer_sample_fails(b) == b.data = <<>>

\* sample(n, replace=True): the batches n draws with replacement can give.
\* The buffer must not be empty.
buffer_sample(b, n) ==
  { [k \in 1..n |-> b.data[idx[k]]] : idx \in [1..n -> 1..Len(b.data)] }

-----------------------------------------------------------------------------
(* Exceptions. *)

NoError ==
  [type |-> "None", check |-> "", msg |-> "", has_value |-> FALSE, value |-> ""]

\* ValueError(msg) raised by the check of game property `check`.
ValueError(check, msg) ==
  [type |-> "ValueError", check |-> check, msg |-> msg,
   has_value |-> FALSE, value |-> ""]

\* raise ValueError(msg.format(game.<attr>)): the message is formatted from
\* an attribute of the game object itself, not of game.get_type(); reading
\* an attribute the object does not have raises AttributeError instead.
FormatError(g, attr, msg) ==
  IF g.type_attrs
    THEN [type |-> "ValueError", check |-> attr, msg |-> msg,
          has_value |-> TRUE, value |-> g[attr]]
    ELSE [type |-> "AttributeError", check |-> attr, msg |-> attr,
          has_value |-> FALSE, value |-> ""]

EmptyBufferError ==
  [type |-> "EmptyBufferError", check |-> "", msg |-> "",
   has_value |-> FALSE, value |-> ""]

-----------------------------------------------------------------------------
(* AlphaZero.__init__ *)

\* The exception the validation of the game raises, NoError when it passes.
init_error(g) ==
  IF g.num_players # 2
    THEN ValueError("num_players", "Game must be a 2-player game")
  ELSE IF g.chance_mode # "DETERMINISTIC"
    THEN FormatError(g, "chance_mode",
                     "The game must be a Deterministic one, not {}")
  ELSE IF g.information # "PERFECT_INFORMATION"
    THEN FormatError(g, "information",
                     "The game must be a perfect information one, not {}")
  ELSE IF g.dynamics # "SEQUENTIAL"
    THEN FormatError(g, "dynamics", "The game must be turn-based, not {}")
  ELSE IF g.utility # "ZERO_SUM"
    THEN FormatError(g, "utility", "The game must be 0-sum, not {}")
  ELSE IF g.num_players # 2
    THEN ValueError("num_players", "Game must have exactly 2 players.")
  ELSE NoError

\* The object before any of its fields is assigned.
NoSelf ==
  [has_bot |-> FALSE, has_game |-> FALSE,
   buffer |-> [capacity |-> 0, data |-> <<>>],
   num_self_play_games |-> 0, action_selection_transition |-> 0,
   batch_size |-> 0]

\* The buffer built one transition too large.
init_buffer_wrong_capacity == ReplayBuffer(ReplayBufferCapacity + 1)

\* self.buffer = dqn.ReplayBuffer(replay_buffer_capacity)
init_buffer == ReplayBuffer(ReplayBufferCapacity)

\* The fields the constructor assigns; num_training_rounds is not among them.
init_fields ==
  [has_bot |-> TRUE, has_game |-> TRUE,
   buffer |-> init_buffer,
   num_self_play_games |-> NumSelfPlayGames,
   action_selection_transition |-> ActionSelectionTransition,
   batch_size |-> BatchSize]

NoEvaluator ==
  [updates |-> 0, loss |-> 0, loss_policy |-> 0, loss_value |-> 0,
   loss_l2 |-> 0]

\* The losses are locals of the evaluator's update: the next call of a
\* method of the controller finds none.
evaluator_forget(ev) == [NoEvaluator EXCEPT !.updates = ev.updates]

NoLossValues == [returned |-> FALSE, total |-> 0, policy |-> 0, value |-> 0, l2 |-> 0]

Construct ==
  /\ pc = "new"
  /\ IF init_error(game) # NoError
       THEN /\ pc' = "failed"
            /\ error' = init_error(game)
            /\ self' = self
       ELSE /\ pc' = "idle"
            /\ error' = NoError
            /\ self' = init_fields
  /\ UNCHANGED <<game, gamesLeft, state, observations, policy_target,
                 root_node, terminal_rewards, i, data, ret, evaluator,
                 calls, phases, fin, fout>>

-----------------------------------------------------------------------------
(* The tree search, bot.mcts_search(state): a root with one child per      *)
(* legal action, at least one of them visited.  A child is                 *)
(* [action, explore_count].                                                *)

RECURSIVE Ascending(_)
Ascending(S) ==
  IF S = {} THEN <<>>
  ELSE LET m == CHOOSE x \in S : \A y \in S : x <= y
       IN  <<m>> \o Ascending(S \ {m})

Reverse(s) == [k \in 1..Len(s) |-> s[Len(s) + 1 - k]]

\* Two outcomes of a search of state h: every child visited once, in
\* ascending order of action; or the child of action a visited
\* NumActions - a times, in descending order of action.
SearchSeeds == {0, 1}

mcts_search(h, seed) ==
  LET acts == Ascending(legal_actions(h))
  IN  IF seed = 0
        THEN [k \in 1..Len(acts) |-> [action |-> acts[k], explore_count |-> 1]]
        ELSE Reverse([k \in 1..Len(acts) |->
                        [action |-> acts[k],
                         explore_count |-> NumActions - acts[k]]])

-----------------------------------------------------------------------------
(* AlphaZero._self_play_single: the target policy, lines 122-126. *)

\* for child in children: target_policy[child.action] = child.explore_count
\* The vector after the first n children; it is indexed by action + 1.
RECURSIVE assign_counts(_, _, _)
assign_counts(vec, children, n) ==
  IF n = 0 THEN vec
  ELSE [assign_counts(vec, children, n - 1)
          EXCEPT ![children[n].action + 1] = children[n].explore_count]

\* The target policy without the division by the sum.
target_policy_unnormalised(children) ==
  LET vec == assign_counts([a \in 1..NumActions |-> 0], children,
                           Len(children))
  IN  [a \in 1..NumActions |-> <<vec[a], 1>>]

\* np.zeros(num_distinct_actions); the loop; target_policy /= sum(target_policy).
\* The entries of the result are rationals.
target_policy(children) ==
  LET vec == assign_counts([a \in 1..NumActions |-> 0], children,
                           Len(children))
  IN  [a \in 1..NumActions |-> <<vec[a], SeqSum(vec)>>]

-----------------------------------------------------------------------------
(* np_softmax and AlphaZero._select_action *)

\* exp(-d) for an integer d >= 0, in units of 1/Scale.
RECURSIVE exp_neg(_)
exp_neg(d) == IF d = 0 THEN Scale ELSE (exp_neg(d - 1) * 368) \div 1000

\* exp(logits - max(logits)) / sum: the probabilities, as rationals.
np_softmax(logits) ==
  LET max_logit == Max({logits[k] : k \in 1..Len(logits)})
      exp_logit == [k \in 1..Len(logits) |-> exp_neg(max_logit - logits[k])]
  IN  [k \in 1..Len(logits) |-> <<exp_logit[k], SeqSum(exp_logit)>>]

\* max() of a list of pairs: Python compares tuples lexicographically.
TupleLess(p, q) == p[1] < q[1] \/ (p[1] = q[1] /\ p[2] < q[2])

\* The maximum count with ties broken towards the smaller action.
tuple_max_smaller_action(pairs) ==
  CHOOSE p \in {pairs[k] : k \in 1..Len(pairs)} :
    \A k \in 1..Len(pairs) :
      \/ pairs[k] = p
      \/ pairs[k][1] < p[1]
      \/ (pairs[k][1] = p[1] /\ p[2] < pairs[k][2])

tuple_max(pairs) ==
  CHOOSE p \in {pairs[k] : k \in 1..Len(pairs)} :
    \A k \in 1..Len(pairs) : pairs[k] = p \/ TupleLess(pairs[k], p)

\* The results _select_action can return: [action, sampled], sampled telling
\* which branch chose.  np.random.choice draws an index of positive
\* probability.
select_action(children, game_history_len, transition) ==
  LET explore_counts ==
        [k \in 1..Len(children) |->
           <<children[k].explore_count, children[k].action>>]
  IN  IF game_history_len < transition
        THEN LET probs == np_softmax([k \in 1..Len(children) |->
                                        explore_counts[k][1]])
             IN  { [action |-> explore_counts[k][2], sampled |-> TRUE] :
                     k \in {j \in 1..Len(probs) : probs[j][1] > 0} }
        ELSE { [action |-> tuple_max(explore_counts)[2], sampled |-> FALSE] }

-----------------------------------------------------------------------------
(* AlphaZero.self_play and AlphaZero._self_play_single *)

MCTSResult(obs, pol, value) ==
  [observation |-> obs, target_value |-> value, target_policy |-> pol]

\* The caller calls self_play().
self_play_call ==
  /\ pc = "idle"
  /\ calls < MaxCalls
  /\ calls' = calls + 1
  /\ gamesLeft' = self.num_self_play_games
  /\ error' = NoError
  /\ ret' = NoLossValues
  /\ evaluator' = evaluator_forget(evaluator)
  /\ pc' = "self_play"
  /\ UNCHANGED <<game, self, state, observations, policy_target, root_node,
                 terminal_rewards, i, data, phases, fin, fout>>

\* for _ in range(self.num_self_play_games): an episode starts (lines
\* 114-115), or the loop is over and self_play returns.
self_play_loop ==
  /\ pc = "self_play"
  /\ IF gamesLeft > 0
       THEN /\ state' = new_initial_state
            /\ observations' = <<>>
            /\ policy_target' = <<>>
            /\ root_node' = <<>>
            /\ terminal_rewards' = <<>>
            /\ i' = 0
            /\ pc' = "while"
            /\ UNCHANGED phases
       ELSE /\ pc' = "idle"
            /\ phases' = phases + 1
            /\ UNCHANGED <<state, observations, policy_target, root_node,
                           terminal_rewards, i>>
  /\ UNCHANGED <<game, self, error, gamesLeft, data, ret, evaluator, calls,
                 fin, fout>>

\* while not state.is_terminal(): root_node = self.bot.mcts_search(state)
episode_search ==
  /\ pc = "while"
  /\ ~is_terminal(state)
  /\ \E seed \in SearchSeeds : root_node' = mcts_search(state, seed)
  /\ pc' = "record"
  /\ UNCHANGED <<game, self, error, gamesLeft, state, observations,
                 policy_target, terminal_rewards, i, data, ret, evaluator,
                 calls, phases, fin, fout>>

\* The step adding its transition at once, with no value known yet.
episode_record_adds_at_once ==
  /\ pc = "record"
  /\ observations' = Append(observations, observation_tensor(state))
  /\ policy_target' = Append(policy_target, target_policy(root_node))
  /\ self' = [self EXCEPT !.buffer =
                buffer_add(@, MCTSResult(observation_tensor(state),
                                         target_policy(root_node), 0))]
  /\ pc' = "select"
  /\ UNCHANGED <<game, error, gamesLeft, state, root_node, terminal_rewards,
                 i, data, ret, evaluator, calls, phases, fin, fout>>

\* lines 120-127: the observation and the target policy are recorded.
episode_record ==
  /\ pc = "record"
  /\ observations' = Append(observations, observation_tensor(state))
  /\ policy_target' = Append(policy_target, target_policy(root_node))
  /\ pc' = "select"
  /\ UNCHANGED <<game, self, error, gamesLeft, state, root_node,
                 terminal_rewards, i, data, ret, evaluator, calls, phases,
                 fin, fout>>

\* lines 129-130: the action is selected and applied.
episode_apply ==
  /\ pc = "select"
  /\ \E r \in select_action(root_node, Len(state),
                            self.action_selection_transition) :
       state' = Append(state, r.action)
  /\ pc' = "while"
  /\ UNCHANGED <<game, self, error, gamesLeft, observations, policy_target,
                 root_node, terminal_rewards, i, data, ret, evaluator, calls,
                 phases, fin, fout>>

\* line 132: the loop is left at a terminal state.
episode_terminal ==
  /\ pc = "while"
  /\ is_terminal(state)
  /\ terminal_rewards' = rewards(state)
  /\ i' = 0
  /\ pc' = "add"
  /\ UNCHANGED <<game, self, error, gamesLeft, state, observations,
                 policy_target, root_node, data, ret, evaluator, calls,
                 phases, fin, fout>>

\* The reward index of the player who moved at step k.
reward_index_of_mover(k) == current_player(SubSeq(state, 1, k)) + 1

\* value = terminal_rewards[i % 2], as an index of the tuple.
reward_index(k) == (k % 2) + 1

\* lines 133-136: one iteration of the loop that adds, or its end, where
\* _self_play_single returns and its locals are gone.  zip stops at the
\* shorter list.
episode_add ==
  /\ pc = "add"
  /\ IF i < Len(observations) /\ i < Len(policy_target)
       THEN /\ self' = [self EXCEPT !.buffer =
                          buffer_add(@, MCTSResult(observations[i + 1],
                                                   policy_target[i + 1],
                                                   terminal_rewards[reward_index(i)]))]
            /\ i' = i + 1
            /\ UNCHANGED <<pc, gamesLeft>>
            /\ UNCHANGED <<state, observations, policy_target, root_node,
                           terminal_rewards>>
       ELSE /\ gamesLeft' = gamesLeft - 1
            /\ pc' = "self_play"
            /\ state' = <<>>
            /\ observations' = <<>>
            /\ policy_target' = <<>>
            /\ root_node' = <<>>
            /\ terminal_rewards' = <<>>
            /\ i' = 0
            /\ UNCHANGED self
  /\ UNCHANGED <<game, error, data, ret, evaluator, calls, phases, fin, fout>>

-----------------------------------------------------------------------------
(* AlphaZero.update and AlphaZeroKerasEvaluator.update *)

\* update with the failure of sample swallowed: it goes on with no data.
update_sample_swallows_error ==
  /\ pc = "idle"
  /\ calls < MaxCalls
  /\ calls' = calls + 1
  /\ ret' = NoLossValues
  /\ error' = NoError
  /\ IF buffer_sample_fails(self.buffer)
       THEN data' = <<>>
       ELSE data' \in buffer_sample(self.buffer, self.batch_size)
  /\ pc' = "update"
  /\ evaluator' = evaluator_forget(evaluator)
  /\ UNCHANGED <<game, self, gamesLeft, state, observations, policy_target,
                 root_node, terminal_rewards, i, phases, fin, fout>>

\* The caller calls update(); line 101: the batch is sampled, or sampling
\* an empty buffer raises and update is left.
update_sample ==
  /\ pc = "idle"
  /\ calls < MaxCalls
  /\ calls' = calls + 1
  /\ ret' = NoLossValues
  /\ IF buffer_sample_fails(self.buffer)
       THEN /\ error' = EmptyBufferError
            /\ UNCHANGED <<pc, data>>
       ELSE /\ error' = NoError
            /\ data' \in buffer_sample(self.buffer, self.batch_size)
            /\ pc' = "update"
  /\ evaluator' = evaluator_forget(evaluator)
  /\ UNCHANGED <<game, self, gamesLeft, state, observations, policy_target,
                 root_node, terminal_rewards, i, phases, fin, fout>>

\* loss = loss_policy + loss_value + loss_l2
loss_sum(p, v, l2) == p + v + l2

\* The evaluator after an update whose losses are p, v and l2.
evaluator_update(ev, p, v, l2) ==
  [updates |-> ev.updates + 1, loss |-> loss_sum(p, v, l2),
   loss_policy |-> p, loss_value |-> v, loss_l2 |-> l2]

\* return LossValues(total=loss, policy=loss_policy, value=loss_value,
\* l2=loss_l2): a named tuple, its fields in the order total, policy,
\* value, l2.
evaluator_return(ev) == <<ev.loss, ev.loss_policy, ev.loss_value, ev.loss_l2>>

\* The report with the policy and value losses swapped.
update_return_swapped(t) ==
  [returned |-> TRUE, total |-> t[1], policy |-> t[3], value |-> t[2],
   l2 |-> t[4]]

\* (total_loss, policy_loss, value_loss, l2_loss) = evaluator.update(data);
\* return LossValues(total=total_loss, policy=policy_loss, ...)
update_return(t) ==
  [returned |-> TRUE, total |-> t[1], policy |-> t[2], value |-> t[3],
   l2 |-> t[4]]

\* lines 102-107: the evaluator is updated with the batch and its losses
\* are returned.
update_evaluator ==
  /\ pc = "update"
  /\ \E p, v, l2 \in 0..MaxLoss :
       /\ evaluator' = evaluator_update(evaluator, p, v, l2)
       /\ ret' = update_return(evaluator_return(evaluator'))
  /\ data' = <<>>
  /\ pc' = "idle"
  /\ UNCHANGED <<game, self, error, gamesLeft, state, observations,
                 policy_target, root_node, terminal_rewards, i, calls,
                 phases, fin, fout>>

-----------------------------------------------------------------------------
(* The controller: a game is handed to the constructor, then the caller    *)
(* calls self_play and update in any order.                                *)

NoFn == [fn |-> "none"]

\* Any game may be handed to the constructor.
Init ==
  /\ pc = "new"
  /\ \/ game \in {g \in Games : g.num_players = 2}
     \/ game \in {g \in Games : g.num_players # 2}
  /\ self = NoSelf
  /\ error = NoError
  /\ gamesLeft = 0
  /\ state = <<>>
  /\ observations = <<>>
  /\ policy_target = <<>>
  /\ root_node = <<>>
  /\ terminal_rewards = <<>>
  /\ i = 0
  /\ data = <<>>
  /\ ret = NoLossValues
  /\ evaluator = NoEvaluator
  /\ calls = 0
  /\ phases = 0
  /\ fin = NoFn
  /\ fout = NoFn

Next ==
  \/ Construct
  \/ self_play_call
  \/ self_play_loop
  \/ episode_search
  \/ episode_record
  \/ episode_apply
  \/ episode_terminal
  \/ episode_add
  \/ update_sample
  \/ update_evaluator

Spec == Init /\ [][Next]_vars

-----------------------------------------------------------------------------
(* One iteration of the loop of _self_play_single applied to any root: the *)
(* target policy (lines 122-126) and the selected action (line 129).       *)

\* The constructed controller, for the functions applied on their own.
ValidGame ==
  [num_players |-> 2, chance_mode |-> "DETERMINISTIC",
   information |-> "PERFECT_INFORMATION", dynamics |-> "SEQUENTIAL",
   utility |-> "ZERO_SUM", type_attrs |-> FALSE]

Constructed ==
  /\ game = ValidGame
  /\ self = init_fields
  /\ error = NoError
  /\ gamesLeft = 0
  /\ state = <<>>
  /\ observations = <<>>
  /\ policy_target = <<>>
  /\ root_node = <<>>
  /\ terminal_rewards = <<>>
  /\ i = 0
  /\ data = <<>>
  /\ ret = NoLossValues
  /\ evaluator = NoEvaluator
  /\ calls = 0
  /\ phases = 0

controller == <<game, self, error, gamesLeft, state, observations,
                policy_target, root_node, terminal_rewards, i, data, ret,
                evaluator, calls, phases>>

\* The roots a search can return: children of distinct actions in any
\* order, explore counts up to MaxCount, at least one child visited.
Roots ==
  { c \in UNION { [1..n -> [action : Actions, explore_count : 0..MaxCount]] :
                  n \in 1..NumActions } :
      /\ \A j, k \in 1..Len(c) : j # k => c[j].action # c[k].action
      /\ \E k \in 1..Len(c) : c[k].explore_count > 0 }

InitStep ==
  /\ Constructed
  /\ pc = "step_in"
  /\ fin \in { [fn |-> "step", children |-> c, game_history_len |-> n] :
                 c \in Roots, n \in 0..MaxMoves }
  /\ fout = NoFn

apply_step ==
  /\ pc = "step_in"
  /\ \E r \in select_action(fin.children, fin.game_history_len,
                            self.action_selection_transition) :
       fout' = [fn |-> "step", target_policy |-> target_policy(fin.children),
                action |-> r.action, sampled |-> r.sampled]
  /\ pc' = "step_out"
  /\ UNCHANGED <<controller, fin>>

SpecStep == InitStep /\ [][apply_step]_vars

-----------------------------------------------------------------------------
(* alpha_zero_ucb_score, in fixed point. *)

\* The largest r in lo..hi with r * r <= x.
RECURSIVE isqrt_between(_, _, _)
isqrt_between(x, lo, hi) ==
  IF lo >= hi THEN lo
  ELSE LET mid == (lo + hi + 1) \div 2
       IN  IF mid * mid <= x THEN isqrt_between(x, mid, hi)
           ELSE isqrt_between(x, lo, mid - 1)

\* math.sqrt(n) of an integer n >= 0.
fixed_sqrt(n) == isqrt_between(n * Scale * Scale, 0, (n + 1) * Scale)

\* The sum of y^(2k+1)/(2k+1) for k = k0 .. LnTerms-1; power is y^(2k0+1).
RECURSIVE ln_series(_, _, _)
ln_series(y, power, k0) ==
  IF k0 >= LnTerms THEN 0
  ELSE power \div (2 * k0 + 1)
       + ln_series(y, (((power * y) \div Scale) * y) \div Scale, k0 + 1)

\* math.log(num / den) for integers num >= den > 0: 2 * atanh((x-1)/(x+1)).
fixed_ln(num, den) ==
  LET y == ((num - den) * Scale) \div (num + den)
  IN  2 * ln_series(y, y, 0)

\* c = math.log((parent_explore_count + c_base + 1) / c_base) + c_init
\* c *= math.sqrt(parent_explore_count) / (child.explore_count + 1)
\* prior_score = c * child.prior
ucb_prior_score(child, parent_explore_count, params) ==
  LET c_init == params[1]
      c_base == params[2]
      c0 == fixed_ln(parent_explore_count + c_base + 1, c_base) + c_init
      c  == (c0 * (fixed_sqrt(parent_explore_count)
                     \div (child.explore_count + 1))) \div Scale
  IN  (c * child.prior) \div Scale

\* The exploitation term without the branch on explore_count.
ucb_value_score_unguarded(child) ==
  child.total_reward \div (child.explore_count + 1)

\* value_score = child.explore_count and child.total_reward / child.explore_count
\* Python's `and` gives its left operand when that is 0.
ucb_value_score(child) ==
  IF child.explore_count = 0 THEN child.explore_count
  ELSE child.total_reward \div child.explore_count

\* outcome is <<>> for None, else the tuple of the players' values.
alpha_zero_ucb_score(child, parent_explore_count, params) ==
  IF child.outcome # <<>>
    THEN child.outcome[child.player + 1]
    ELSE ucb_prior_score(child, parent_explore_count, params)
         + ucb_value_score(child)

Outcomes == {<<>>, <<Scale, -Scale>>, <<-Scale, Scale>>, <<0, 0>>}

SearchChildren ==
  [outcome : Outcomes, player : Players, explore_count : 0..MaxCount,
   total_reward : {-Scale, 0, Scale \div 2, 2 * Scale},
   prior : {0, Scale \div 4, Scale}]

\* (c_init, c_base): 1.25 and 19652, and 2 and 1.
UcbParams == {<<(5 * Scale) \div 4, 19652>>, <<2 * Scale, 1>>}

InitScore ==
  /\ Constructed
  /\ pc = "score_in"
  /\ fin \in { [fn |-> "score", child |-> c, parent_explore_count |-> n,
                params |-> q] :
                 c \in SearchChildren, n \in 0..(MaxCount + 1), q \in UcbParams }
  /\ fout = NoFn

apply_score ==
  /\ pc = "score_in"
  /\ fout' = [fn |-> "score",
              score |-> alpha_zero_ucb_score(fin.child,
                                             fin.parent_explore_count,
                                             fin.params)]
  /\ pc' = "score_out"
  /\ UNCHANGED <<controller, fin>>

SpecScore == InitScore /\ [][apply_score]_vars

-----------------------------------------------------------------------------
(* The properties. *)

Last(s) == s[Len(s)]

Min(a, b) == IF a < b THEN a ELSE b

\* C1.  The controller runs num_training_rounds rounds, each one self-play
\* phase followed by one update of the evaluator: no more phases than
\* rounds are run, no update is done before the phase of its round has
\* finished, and a phase begins only after the update of the round before.
C1_RoundsInOrder ==
  /\ phases <= NumTrainingRounds
  /\ evaluator.updates <= NumTrainingRounds
  /\ evaluator.updates <= phases
  /\ phases <= evaluator.updates + 1

\* The structural preconditions of the constructor and the ones a game
\* violates.
Preconditions ==
  {"num_players", "chance_mode", "information", "dynamics", "utility"}

Violates(g, p) ==
  CASE p = "num_players" -> g.num_players # 2
    [] p = "chance_mode" -> g.chance_mode # "DETERMINISTIC"
    [] p = "information" -> g.information # "PERFECT_INFORMATION"
    [] p = "dynamics"    -> g.dynamics # "SEQUENTIAL"
    [] p = "utility"     -> g.utility # "ZERO_SUM"

ActualValue(g, p) == IF p = "num_players" THEN ToString(g.num_players) ELSE g[p]

\* C2.  Constructing the controller with a game that violates one of the
\* five preconditions fails with the ValueError of that precondition,
\* which carries the actual value of the offending property, and no field
\* of the controller is assigned.
C2_ConstructionFails ==
  \A p \in Preconditions :
    (pc # "new" /\ \A q \in Preconditions : Violates(game, q) <=> q = p)
      => /\ pc = "failed"
         /\ error.type = "ValueError"
         /\ error.check = p
         /\ error.has_value
         /\ error.value = ActualValue(game, p)
         /\ self = NoSelf

\* C3.  The replay buffer never holds more than replay_buffer_capacity
\* transitions; a full buffer stays full; an add on a full buffer evicts
\* the oldest transition only, the others keep their order and the new
\* one is the newest.
C3_BufferBoundedFifo ==
  [][ /\ Len(self'.buffer.data) <= ReplayBufferCapacity
      /\ (self.has_bot /\ Len(self.buffer.data) = ReplayBufferCapacity)
           => Len(self'.buffer.data) = ReplayBufferCapacity
      /\ (pc = "add" /\ i' = i + 1
            /\ Len(self.buffer.data) = ReplayBufferCapacity)
           => /\ \A k \in 1..(ReplayBufferCapacity - 1) :
                   self'.buffer.data[k] = self.buffer.data[k + 1]
              /\ Last(self'.buffer.data).observation = observations[i + 1]
    ]_vars

\* An episode has added more transitions than the buffer holds.
C3_Witness ==
  /\ pc = "add"
  /\ i > ReplayBufferCapacity
  /\ Len(self.buffer.data) = ReplayBufferCapacity
  /\ Last(self.buffer.data).observation = observations[i]
  /\ self.buffer.data[1].observation = observations[i - 1]

\* The transition of step s of the episode that ended in state h.
StepTransition(h, s) ==
  [observation |-> observation_tensor(SubSeq(h, 1, s)),
   target_policy |-> policy_target[s + 1],
   target_value |-> rewards(h)[(s % 2) + 1]]

\* C4.  When an episode has ended after k moves, k transitions are added,
\* one per step in play order: after i adds the newest transitions of the
\* buffer are those of steps i-1, i-2, ...; the loop ends at i = k; the
\* transition of step s holds the observation and the target policy
\* recorded at step s and the terminal reward of index s mod 2.
C4_EpisodeTransitions ==
  pc = "add" =>
    /\ Len(observations) = Len(state)
    /\ Len(policy_target) = Len(state)
    /\ i <= Len(state)
    /\ Len(self.buffer.data) >= Min(i, ReplayBufferCapacity)
    /\ \A s \in 0..(Len(state) - 1) :
         observations[s + 1] = observation_tensor(SubSeq(state, 1, s))
    /\ \A j \in 0..(Min(i, ReplayBufferCapacity) - 1) :
         self.buffer.data[Len(self.buffer.data) - j]
           = StepTransition(state, i - 1 - j)

\* All three transitions of an episode are added; at one step the player
\* who moved is not the player the reward was taken from, and the two
\* players' rewards differ.
C4_Witness ==
  /\ pc = "add"
  /\ i = Len(state)
  /\ i = 3
  /\ terminal_rewards[1] # terminal_rewards[2]
  /\ \E s \in 0..(i - 1) : current_player(SubSeq(state, 1, s)) # s % 2

ChildActions(children) == {children[k].action : k \in 1..Len(children)}

ChildCounts(children) == [k \in 1..Len(children) |-> children[k].explore_count]

\* C5.  A target policy has num_distinct_actions entries, gives 0 to every
\* action that is no child's, gives a child's action the child's
\* explore_count over the sum of the children's explore_counts, and sums
\* to 1.
C5_TargetPolicy ==
  pc = "step_out" =>
    LET tp == fout.target_policy
        ch == fin.children
    IN  /\ Len(tp) = NumActions
        /\ \A a \in Actions : tp[a + 1][2] > 0
        /\ \A a \in Actions \ ChildActions(ch) : tp[a + 1][1] = 0
        /\ \A k \in 1..Len(ch) :
             RatEq(tp[ch[k].action + 1],
                   <<ch[k].explore_count, SeqSum(ChildCounts(ch))>>)
        /\ \A a \in Actions :
             SeqSum([b \in 1..NumActions |-> tp[b][1]]) = tp[a + 1][2]

\* A root with an action that has no child and children of different
\* explore counts.
C5_Witness ==
  /\ pc = "step_out"
  /\ ChildActions(fin.children) # Actions
  /\ \E k \in 1..Len(fin.children) : fin.children[k].explore_count > 1

\* C6.  With at least action_selection_transition moves played the
\* selected action is that of the child of maximum explore_count, and of
\* the larger action id among children of equal maximum explore_count;
\* with fewer moves played it is sampled, and is the action of a child.
C6_SelectAction ==
  pc = "step_out" =>
    LET ch == fin.children
    IN  IF fin.game_history_len >= ActionSelectionTransition
          THEN /\ ~fout.sampled
               /\ \E k \in 1..Len(ch) :
                    /\ ch[k].action = fout.action
                    /\ \A j \in 1..Len(ch) :
                         \/ ch[j].explore_count < ch[k].explore_count
                         \/ /\ ch[j].explore_count = ch[k].explore_count
                            /\ ch[j].action <= ch[k].action
          ELSE /\ fout.sampled
               /\ fout.action \in ChildActions(ch)

\* Greedy selection among two children of equal maximum explore_count, the
\* child of the larger action coming first.
C6_Witness ==
  /\ pc = "step_out"
  /\ fin.game_history_len >= ActionSelectionTransition
  /\ Len(fin.children) >= 2
  /\ fin.children[1].explore_count = fin.children[2].explore_count
  /\ fin.children[1].action > fin.children[2].action
  /\ fout.action = fin.children[1].action

\* The caller calls update.
UpdateCalled == pc = "idle" /\ calls' = calls + 1 /\ pc' # "self_play"

\* C7.  update on an empty buffer fails with the empty-buffer error: the
\* evaluator is not updated and the buffer is as before.  On a buffer
\* that is not empty the sample, and the whole update, leave the buffer as
\* it was.
C7_UpdateSamples ==
  [][ /\ (UpdateCalled /\ self.buffer.data = <<>>)
           => /\ error'.type = "EmptyBufferError"
              /\ pc' = "idle"
              /\ evaluator'.updates = evaluator.updates
              /\ ~ret'.returned
      /\ (UpdateCalled /\ self.buffer.data # <<>>)
           => /\ error' = NoError
              /\ pc' = "update"
              /\ Len(data') = BatchSize
              /\ \A k \in 1..Len(data') :
                   \E j \in 1..Len(self.buffer.data) :
                     data'[k] = self.buffer.data[j]
      /\ (UpdateCalled \/ pc = "update") => self'.buffer = self.buffer
    ]_vars

\* update has failed on the empty buffer of a new controller.
C7_Witness ==
  /\ pc = "idle"
  /\ error.type = "EmptyBufferError"
  /\ self.buffer.data = <<>>
  /\ evaluator.updates = 0
  /\ calls > 0

\* C8.  The scorer returns outcome[player] when the child has an outcome,
\* whatever its other fields; else the prior term plus the exploitation
\* term, which is 0 for a child never explored and total_reward over
\* explore_count for the others.  It changes nothing of the controller.
C8_UcbScore ==
  pc = "score_out" =>
    LET c == fin.child
    IN  /\ c.outcome # <<>> => fout.score = c.outcome[c.player + 1]
        /\ c.outcome = <<>> =>
             fout.score
               = ucb_prior_score(c, fin.parent_explore_count, fin.params)
                 + (IF c.explore_count = 0 THEN 0
                    ELSE c.total_reward \div c.explore_count)
        /\ self = init_fields
        /\ evaluator = NoEvaluator

\* A child with no outcome, never explored, with a total reward and a
\* prior that are not 0, under a parent explored before.
C8_Witness ==
  /\ pc = "score_out"
  /\ fin.child.outcome = <<>>
  /\ fin.child.explore_count = 0
  /\ fin.child.total_reward > 0
  /\ fin.child.prior > 0
  /\ fin.parent_explore_count > 0
  /\ fout.score > 0

\* C9.  A loss report, the evaluator's and the one update returns, has
\* total = policy + value + l2, and each field of the returned report is
\* the evaluator's loss of that name.
C9_LossReport ==
  ret.returned =>
    /\ ret.total = ret.policy + ret.value + ret.l2
    /\ ret.total = evaluator.loss
    /\ ret.policy = evaluator.loss_policy
    /\ ret.value = evaluator.loss_value
    /\ ret.l2 = evaluator.loss_l2
    /\ evaluator_return(evaluator)[1]
         = evaluator_return(evaluator)[2] + evaluator_return(evaluator)[3]
           + evaluator_return(evaluator)[4]

\* A report whose policy and value losses differ and whose l2 loss is not 0.
C9_Witness ==
  /\ ret.returned
  /\ ret.policy # ret.value
  /\ ret.l2 > 0
  /\ evaluator.updates > 0

\* Positions inside the loop of an episode.
InLoop == pc \in {"while", "record", "select"}

\* C10.  Inside an episode the buffer is not modified before the terminal
\* state is reached; each step searches the current state, then records
\* that state's observation and the target policy of the returned root,
\* then applies the action of one of the root's children; the transitions
\* are added after the terminal state is reached, all of them before the
\* next episode begins.
C10_EpisodeOrder ==
  [][ /\ self'.buffer.data # self.buffer.data
           => pc = "add" /\ is_terminal(state) /\ state' = state
      /\ (InLoop /\ ~is_terminal(state)) => self'.buffer = self.buffer
      /\ (pc = "while" /\ ~is_terminal(state))
           => /\ pc' = "record"
              /\ state' = state
              /\ \E seed \in SearchSeeds : root_node' = mcts_search(state, seed)
      /\ pc = "record"
           => /\ pc' = "select"
              /\ state' = state /\ root_node' = root_node
              /\ observations' = Append(observations, observation_tensor(state))
              /\ policy_target'
                   = Append(policy_target, target_policy(root_node))
      /\ pc = "select"
           => /\ pc' = "while"
              /\ Len(state') = Len(state) + 1
              /\ SubSeq(state', 1, Len(state)) = state
              /\ Last(state') \in ChildActions(root_node)
      /\ (pc = "add" /\ pc' # "add")
           => i = Len(observations) /\ pc' = "self_play"
      /\ (pc' = "while" /\ state' = <<>>) => pc = "self_play"
    ]_vars

\* The second episode of a phase has reached its terminal state after two
\* moves or more: the buffer holds transitions of the first episode and
\* none of the second.
C10_Witness ==
  /\ pc = "add"
  /\ i = 0
  /\ Len(state) >= 2
  /\ gamesLeft < NumSelfPlayGames
  /\ self.buffer.data # <<>>

=============================================================================
